---- MODULE Spec2Model ----
(***************************************************************************)
(* The Echo backend (backend/app): posts, likes, retweets and comments     *)
(* kept in a PostgreSQL store, accessed by request handlers that each run  *)
(* in one request-scoped session (core/database.py get_db).                *)
(*                                                                         *)
(* A handler is modelled by its read phase (the SELECTs before the first   *)
(* write) and its commit (db.commit(): the flush of the pending INSERTs    *)
(* and DELETEs, then COMMIT).  The session is created with autoflush=False *)
(* and autocommit=False, so nothing a handler writes reaches the store     *)
(* before db.commit(), and everything flushed there becomes visible to the *)
(* other transactions in one step or, on IntegrityError, not at all.       *)
(* Every SELECT reads the committed store (READ COMMITTED).  The two       *)
(* SELECTs at the head of like_post and of retweet_post are one step: a    *)
(* post id is never reused and a post never changes owner, so what the     *)
(* first SELECT returned is still what the store holds at the second, or   *)
(* the post is gone and the commit fails on the foreign key.  What a       *)
(* handler does after its commit (db.refresh, the response) is a step of   *)
(* its own where it can fail.                                              *)
(***************************************************************************)
EXTENDS Integers, FiniteSets, Sequences, TLC

\* Bounds of the model.
NumUsers == 2
MaxPosts == 3
NumSessions == 2
MaxRequests == 4
MaxComments == 3
MaxPage == 3
MaxPageSize == 2
MaxRows == 25
MaxSize == 10
MaxPageNo == 4
MaxThreadRequests == 5

\* NULL of a nullable integer column (ids are positive).
NULL == 0

Users == 1..NumUsers
PostIds == 1..MaxPosts
Sessions == 1..NumSessions
Pairs == Users \X PostIds
CommentIds == 1..MaxComments

\* comments.content: a text and another one.  The handlers read a content only
\* to tell whether an update changes the one loaded.
Contents == 1..2

VARIABLES
    posts,       \* table posts: set of rows [id, user_id, is_retweet, original_post_id]
    nextPostId,  \* the posts.id sequence
    likes,       \* table likes: number of rows per <<user_id, post_id>>
    retweets,    \* table retweets: number of rows per <<user_id, original_post_id>>
    comments,    \* table comments: set of rows [id, user_id, post_id, parent_comment_id, content]
    nextCommentId, \* the comments.id sequence
    sess,        \* per session: the handler it runs and what the handler has loaded
    last,        \* the request completed last and its outcome
    view,        \* the post response of the request completed last, when it is a get_post
    before,      \* the tables as the request completed last found them when it completed
    known,       \* the users the state mentions
    nreq,        \* number of requests received
    cap,         \* number of requests the clients send in all
    workers      \* number of sessions the server opens at a time

vars == <<posts, nextPostId, likes, retweets, comments, nextCommentId,
          sess, last, view, before, known, nreq, cap, workers>>

\* The tables as one value.
DB == [posts |-> posts, likes |-> likes, retweets |-> retweets, comments |-> comments]

\* comment: the comment the handler has loaded or written, old: its content as
\* loaded; parent, content: what the request carries
Idle ==
    [pc |-> "idle", user |-> NULL, post |-> NULL, mirror |-> NULL, stale |-> FALSE,
     comment |-> NULL, old |-> NULL, parent |-> NULL, content |-> NULL]

\* n: how many requests have completed
NoRequest ==
    [n |-> 0, op |-> "none", user |-> NULL, post |-> NULL, comment |-> NULL,
     parent |-> NULL, res |-> "none", detail |-> "none"]

\* The response to request op of user u on post p: the outcome class and the
\* handler's message.
Outcome(op, u, p, res, detail) ==
    [n |-> last.n + 1, op |-> op, user |-> u, post |-> p, comment |-> NULL,
     parent |-> NULL, res |-> res, detail |-> detail]

\* The response to a request on comment c (create_comment: the comment created,
\* the request naming the parent par).
CommentOutcome(op, u, p, c, par, res, detail) ==
    [Outcome(op, u, p, res, detail) EXCEPT !.comment = c, !.parent = par]

\* No post response (original_post: None).
NoPost ==
    [id |-> NULL, is_retweet |-> FALSE, like_count |-> 0, retweet_count |-> 0,
     comment_count |-> 0, is_liked |-> FALSE, is_retweeted |-> FALSE]

\* No response body.
NoView == [kind |-> "none"]

----------------------------------------------------------------------------
\* Rows and queries

\* Post(content, user_id, is_retweet=False): posts.py create_post
OriginalPost(id, u) ==
    [id |-> id, user_id |-> u, is_retweet |-> FALSE, original_post_id |-> NULL]

\* The retweet post written without the reference to its original.
RetweetPostUnlinked(id, u, p) ==
    [id |-> id, user_id |-> u, is_retweet |-> TRUE, original_post_id |-> NULL]

\* Post(content, user_id, is_retweet=True, original_post_id): retweet_post
RetweetPost(id, u, p) ==
    [id |-> id, user_id |-> u, is_retweet |-> TRUE, original_post_id |-> p]

\* select(Post).where(Post.id == post_id)
PostById(db, p) == {x \in db.posts : x.id = p}

PostExists(db, p) == PostById(db, p) # {}

\* The owner taken from the original when the post is a retweet post.
PostOwnerOfOriginal(db, p) ==
    LET x == CHOOSE y \in db.posts : y.id = p
    IN  IF x.is_retweet /\ \E o \in db.posts : o.id = x.original_post_id
          THEN (CHOOSE o \in db.posts : o.id = x.original_post_id).user_id
          ELSE x.user_id

\* post.user_id
PostOwner(db, p) == (CHOOSE x \in db.posts : x.id = p).user_id

\* select(Post).where(user_id == u, original_post_id == p, is_retweet == True)
Mirrors(db, u, p) ==
    {x \in db.posts : x.user_id = u /\ x.original_post_id = p /\ x.is_retweet}

\* The reply written with its own id as its parent.
CommentRowUnderItself(id, u, p, par, c) ==
    [id |-> id, user_id |-> u, post_id |-> p,
     parent_comment_id |-> IF par = NULL THEN NULL ELSE id, content |-> c]

\* Comment(content, user_id, post_id, parent_comment_id): comments.py create_comment
CommentRow(id, u, p, par, c) ==
    [id |-> id, user_id |-> u, post_id |-> p, parent_comment_id |-> par, content |-> c]

\* select(Comment).where(Comment.id == comment_id)
CommentById(db, c) == {x \in db.comments : x.id = c}

CommentExists(db, c) == CommentById(db, c) # {}

TheComment(db, c) == CHOOSE x \in db.comments : x.id = c

\* The table without its unique constraint.
NoUniqueUserPostLike(db, u, p) == TRUE

\* UniqueConstraint('user_id', 'post_id'): may one more row (u, p) be inserted
UniqueUserPostLike(db, u, p) == db.likes[<<u, p>>] = 0

\* The table without its unique constraint.
NoUniqueUserPostRetweet(db, u, p) == TRUE

\* UniqueConstraint('user_id', 'original_post_id')
UniqueUserPostRetweet(db, u, p) == db.retweets[<<u, p>>] = 0

\* ForeignKey("posts.id"): the referenced post row exists
ForeignKeyPost(db, p) == PostExists(db, p)

----------------------------------------------------------------------------
\* Writes

InsertLike(db, u, p) ==
    [db EXCEPT !.likes = [@ EXCEPT ![<<u, p>>] = @ + 1]]

InsertRetweet(db, u, p) ==
    [db EXCEPT !.retweets = [@ EXCEPT ![<<u, p>>] = @ + 1]]

InsertPost(db, row) == [db EXCEPT !.posts = @ \cup {row}]

\* The DELETE never issued.
DeleteNoLikeRow(db, u, p, stale) == db

\* The DELETE without the user in its WHERE clause: every Like of the post goes.
DeleteLikesOfPost(db, u, p, stale) ==
    [db EXCEPT !.likes = [k \in Pairs |-> IF k[2] = p THEN 0 ELSE @[k]]]

\* DELETE of one row by primary key; a row already gone matches nothing
DeleteLikeRow(db, u, p, stale) ==
    IF stale \/ db.likes[<<u, p>>] = 0 THEN db
    ELSE [db EXCEPT !.likes = [@ EXCEPT ![<<u, p>>] = @ - 1]]

DeleteRetweetRow(db, u, p, stale) ==
    IF stale \/ db.retweets[<<u, p>>] = 0 THEN db
    ELSE [db EXCEPT !.retweets = [@ EXCEPT ![<<u, p>>] = @ - 1]]

\* The foreign key without its cascade: no other post goes.
DoomedAlone(ps, D) == D

\* posts.original_post_id ON DELETE CASCADE: the posts that go with the posts D
RECURSIVE Doomed(_, _)
Doomed(ps, D) ==
    LET more == {x.id : x \in {y \in ps : y.original_post_id \in D}}
    IN  IF more \subseteq D THEN D ELSE Doomed(ps, D \cup more)

\* comments.parent_comment_id ON DELETE CASCADE (and the relationship replies,
\* cascade="all, delete-orphan"): the comments that go with the comments C
RECURSIVE DoomedComments(_, _)
DoomedComments(cs, C) ==
    LET more == {x.id : x \in {y \in cs : y.parent_comment_id \in C}}
    IN  IF more \subseteq C THEN C ELSE DoomedComments(cs, C \cup more)

\* The cascade that stops at likes and retweets.
NoCommentsOfPosts(cs, D) == {}

\* The comments of the posts D, which go with them (comments.post_id ON DELETE
\* CASCADE), and their replies.
CommentsOfPosts(cs, D) == DoomedComments(cs, {x.id : x \in {y \in cs : y.post_id \in D}})

\* The DELETE of the one row, nothing going with it.
DeletePostAlone(db, p) == [db EXCEPT !.posts = {x \in @ : x.id # p}]

\* DELETE of post p with the cascades of the relationships likes, retweets and
\* comments (cascade="all, delete-orphan") and of the foreign keys
\* (ondelete="CASCADE")
DeletePostCascade(db, p) ==
    LET D == Doomed(db.posts, {p})
        C == CommentsOfPosts(db.comments, D)
    IN  [posts    |-> {x \in db.posts : x.id \notin D},
         likes    |-> [k \in Pairs |-> IF k[2] \in D THEN 0 ELSE db.likes[k]],
         retweets |-> [k \in Pairs |-> IF k[2] \in D THEN 0 ELSE db.retweets[k]],
         comments |-> {x \in db.comments : x.id \notin C}]

InsertComment(db, row) == [db EXCEPT !.comments = @ \cup {row}]

\* UPDATE comments SET content WHERE id = c
SetContent(db, c, content) ==
    [db EXCEPT !.comments = {IF x.id = c THEN [x EXCEPT !.content = content] ELSE x : x \in @}]

\* The DELETE of the one row, its replies left in the table.
DeleteCommentAlone(db, c) == [db EXCEPT !.comments = {x \in @ : x.id # c}]

\* DELETE of comment c with the cascade of its replies; a row already gone
\* matches nothing
DeleteCommentCascade(db, c) ==
    IF ~CommentExists(db, c) THEN db
    ELSE [db EXCEPT !.comments = {x \in @ : x.id \notin DoomedComments(@, {c})}]

\* No rollback: what the flush had written stays.
RollbackNothing(pre, partial) == partial

\* db.rollback(): the store is what it was; partial is what the flush had written
Rollback(pre, partial) == pre

----------------------------------------------------------------------------
\* Sessions

\* A row a session has loaded is gone once another transaction deleted it: the
\* session's later DELETE by primary key then matches no row.
Loaded(r, old, new) ==
    CASE r.pc = "unlike" ->
           [r EXCEPT !.stale = @ \/ new.likes[<<r.user, r.post>>] < old.likes[<<r.user, r.post>>]]
      [] r.pc \in {"unretweet_find", "unretweet_commit"} ->
           [r EXCEPT !.stale = @ \/ new.retweets[<<r.user, r.post>>] < old.retweets[<<r.user, r.post>>]]
      [] OTHER -> r

\* The users a state mentions: in its tables db, in the tables bf as the last
\* request found them, in its sessions ss and in its last response l.
Known(db, bf, ss, l) ==
    {x.user_id : x \in db.posts \cup db.comments \cup bf.posts \cup bf.comments}
      \cup {k[1] : k \in {j \in Pairs : db.likes[j] > 0 \/ db.retweets[j] > 0
                                       \/ bf.likes[j] > 0 \/ bf.retweets[j] > 0}}
      \cup {ss[s].user : s \in Sessions} \cup {l.user}

\* Session s returns; the store becomes new.
Return(s, new, out) ==
    /\ posts' = new.posts
    /\ likes' = new.likes
    /\ retweets' = new.retweets
    /\ comments' = new.comments
    /\ view' = NoView
    /\ sess' = [t \in Sessions |-> IF t = s THEN Idle ELSE Loaded(sess[t], DB, new)]
    /\ last' = out
    /\ before' = DB
    /\ known' = Known(new, DB, sess', out)

\* Session s has committed, the store becomes new, and s goes on with r loaded.
Proceed(s, new, r) ==
    /\ posts' = new.posts
    /\ likes' = new.likes
    /\ retweets' = new.retweets
    /\ comments' = new.comments
    /\ sess' = [t \in Sessions |-> IF t = s THEN r ELSE Loaded(sess[t], DB, new)]
    /\ UNCHANGED <<last, view, before>>
    /\ known' = Known(new, before, sess', last)

\* Session s goes on to its next step with r loaded.
Continue(s, r) ==
    /\ sess' = [sess EXCEPT ![s] = r]
    /\ UNCHANGED <<posts, nextPostId, likes, retweets, comments, nextCommentId,
                   last, view, before>>
    /\ known' = Known(DB, before, sess', last)

\* The session that takes the next request: the first idle one of those serving,
\* while requests remain.
Receivers ==
    IF nreq < cap
      THEN {s \in 1..workers : sess[s].pc = "idle" /\ \A t \in 1..(s - 1) : sess[t].pc # "idle"}
      ELSE {}

\* The callers of a request session s can take, and the ids a request can carry.
\* Users the state does not mention are interchangeable, and so are the ids the
\* sequences have not handed out yet: the first of them stands for all.
Askers(s) ==
    IF s \in Receivers
      THEN {u \in Users : u \in known \/ \A v \in Users \ known : u <= v}
      ELSE {}

Asked == {p \in PostIds : p <= nextPostId}

AskedComments == {c \in CommentIds : c <= nextCommentId}

\* Request (u, p) is received by session s.  Sessions do not differ, so it is the
\* first free one that serves; the users the state does not mention do not
\* differ, so it is the first of them that stands for all; the post ids the
\* sequence has not handed out do not differ, so the first stands for all.
Receive(s, u, p) ==
    /\ nreq < cap
    /\ s <= workers
    /\ sess[s].pc = "idle"
    /\ \A t \in Sessions : t < s => sess[t].pc # "idle"
    /\ p <= nextPostId
    /\ u \in known \/ \A v \in Users \ known : u <= v
    /\ nreq' = nreq + 1
    /\ UNCHANGED <<cap, workers>>

----------------------------------------------------------------------------
\* The store after init_db, no request received.
Empty ==
    /\ posts = {}
    /\ nextPostId = 1
    /\ likes = [k \in Pairs |-> 0]
    /\ retweets = [k \in Pairs |-> 0]
    /\ comments = {}
    /\ nextCommentId = 1
    /\ sess = [s \in Sessions |-> Idle]
    /\ last = NoRequest
    /\ before = DB
    /\ known = Known(DB, before, sess, last)
    /\ nreq = 0

\* The server runs w sessions at a time and the clients send c requests.
Start(c, w) == Empty /\ view = NoView /\ cap = c /\ workers = w

Init == Start(MaxRequests, NumSessions)

\* posts.py create_post
CreatePost(s) == \E u \in Askers(s) :
    /\ nextPostId <= MaxPosts
    /\ Receive(s, u, nextPostId)
    /\ nextPostId' = nextPostId + 1
    /\ UNCHANGED nextCommentId
    /\ Return(s, InsertPost(DB, OriginalPost(nextPostId, u)),
              Outcome("create_post", u, nextPostId, "Success", "created"))

\* like_post's pre-check "already liked"
AlreadyLiked(db, u, p) == db.likes[<<u, p>>] = 1

\* engagements.py like_post, to the pre-check (scalar_one_or_none raises on two rows)
LikeBegin(s) == \E u \in Askers(s), p \in Asked :
    /\ Receive(s, u, p)
    /\ UNCHANGED <<nextPostId, nextCommentId>>
    /\ IF ~PostExists(DB, p)
         THEN Return(s, DB, Outcome("like", u, p, "NotFound", "post_not_found"))
       ELSE IF likes[<<u, p>>] > 1
         THEN Return(s, DB, Outcome("like", u, p, "InternalError", "multiple_results"))
       ELSE IF AlreadyLiked(DB, u, p)
         THEN Return(s, DB, Outcome("like", u, p, "Conflict", "already_liked"))
       ELSE Continue(s, [Idle EXCEPT !.pc = "like", !.user = u, !.post = p])

\* The flush of like_post's INSERT: does the store reject it (IntegrityError)
LikeIntegrityError(db, u, p) ==
    ~ForeignKeyPost(db, p) \/ ~UniqueUserPostLike(db, u, p)

\* The IntegrityError not caught: it reaches the caller as an internal error.
LikeRejectedUncaught(u, p) == Outcome("like", u, p, "InternalError", "integrity_error")

\* like_post: except IntegrityError: rollback, 400
LikeRejected(u, p) == Outcome("like", u, p, "Conflict", "unable_to_like")

\* like_post: db.add(new_like); db.commit()
LikeCommit(s) ==
    /\ sess[s].pc = "like"
    /\ UNCHANGED <<nextPostId, nextCommentId, nreq, cap, workers>>
    /\ LET u == sess[s].user
           p == sess[s].post
       IN  IF LikeIntegrityError(DB, u, p)
             THEN Return(s, Rollback(DB, DB), LikeRejected(u, p))
             ELSE Return(s, InsertLike(DB, u, p),
                         Outcome("like", u, p, "Success", "liked"))

\* unlike_post, to the lookup of the like
UnlikeBegin(s) == \E u \in Askers(s), p \in Asked :
    /\ Receive(s, u, p)
    /\ UNCHANGED <<nextPostId, nextCommentId>>
    /\ IF likes[<<u, p>>] > 1
         THEN Return(s, DB, Outcome("unlike", u, p, "InternalError", "multiple_results"))
       ELSE IF likes[<<u, p>>] = 0
         THEN Return(s, DB, Outcome("unlike", u, p, "NotFound", "like_not_found"))
       ELSE Continue(s, [Idle EXCEPT !.pc = "unlike", !.user = u, !.post = p])

\* unlike_post: db.delete(like); db.commit()
UnlikeCommit(s) ==
    /\ sess[s].pc = "unlike"
    /\ UNCHANGED <<nextPostId, nextCommentId, nreq, cap, workers>>
    /\ LET u == sess[s].user
           p == sess[s].post
       IN  Return(s, DeleteLikeRow(DB, u, p, sess[s].stale),
                  Outcome("unlike", u, p, "Success", "unliked"))

\* The check left out.
OwnPostUnchecked(db, u, p) == FALSE

\* The check on the wrong column: post.id == current_user.id
OwnPostById(db, u, p) == p = u

\* retweet_post's check "Can't retweet your own post"
OwnPost(db, u, p) == PostOwner(db, p) = u

\* retweet_post, to the pre-check
RetweetBegin(s) == \E u \in Askers(s), p \in Asked :
    /\ Receive(s, u, p)
    /\ UNCHANGED <<nextPostId, nextCommentId>>
    /\ IF ~PostExists(DB, p)
         THEN Return(s, DB, Outcome("retweet", u, p, "NotFound", "post_not_found"))
       ELSE IF OwnPost(DB, u, p)
         THEN Return(s, DB, Outcome("retweet", u, p, "Conflict", "own_post"))
       ELSE IF retweets[<<u, p>>] > 1
         THEN Return(s, DB, Outcome("retweet", u, p, "InternalError", "multiple_results"))
       ELSE IF retweets[<<u, p>>] = 1
         THEN Return(s, DB, Outcome("retweet", u, p, "Conflict", "already_retweeted"))
       ELSE Continue(s, [Idle EXCEPT !.pc = "retweet", !.user = u, !.post = p])

\* The flush of retweet_post: INSERT INTO posts, then INSERT INTO retweets (the
\* unit of work writes posts first: retweets references posts).  ok: no
\* IntegrityError; db: the store as the flush left it.
RetweetFlush(db, id, u, p) ==
    IF ~ForeignKeyPost(db, p)
      THEN [ok |-> FALSE, db |-> db]
    ELSE IF ~UniqueUserPostRetweet(db, u, p)
      THEN [ok |-> FALSE, db |-> InsertPost(db, RetweetPost(id, u, p))]
    ELSE [ok |-> TRUE, db |-> InsertRetweet(InsertPost(db, RetweetPost(id, u, p)), u, p)]

\* The IntegrityError not caught: it reaches the caller as an internal error.
RetweetRejectedUncaught(u, p) ==
    Outcome("retweet", u, p, "InternalError", "integrity_error")

\* retweet_post: except IntegrityError: rollback, 400
RetweetRejected(u, p) == Outcome("retweet", u, p, "Conflict", "unable_to_retweet")

\* retweet_post: db.add(new_retweet); db.add(retweet_post); db.commit(),
\* IntegrityError caught.  The retweet post takes the next id of the sequence
\* (the ids a rolled back INSERT used up are not modelled: no request can tell);
\* a commit that needs an id waits while the sequence is at its bound.
RetweetCommit(s) ==
    /\ sess[s].pc = "retweet"
    /\ UNCHANGED <<nextCommentId, nreq, cap, workers>>
    /\ LET u == sess[s].user
           p == sess[s].post
           f == RetweetFlush(DB, nextPostId, u, p)
       IN  IF f.ok
             THEN /\ nextPostId <= MaxPosts
                  /\ nextPostId' = nextPostId + 1
                  /\ Return(s, f.db, Outcome("retweet", u, p, "Success", "retweeted"))
             ELSE /\ UNCHANGED nextPostId
                  /\ Return(s, Rollback(DB, f.db), RetweetRejected(u, p))

\* unretweet_post, to the lookup of the retweet entry
UnretweetBegin(s) == \E u \in Askers(s), p \in Asked :
    /\ Receive(s, u, p)
    /\ UNCHANGED <<nextPostId, nextCommentId>>
    /\ IF retweets[<<u, p>>] > 1
         THEN Return(s, DB, Outcome("unretweet", u, p, "InternalError", "multiple_results"))
       ELSE IF retweets[<<u, p>>] = 0
         THEN Return(s, DB, Outcome("unretweet", u, p, "NotFound", "retweet_not_found"))
       ELSE Continue(s, [Idle EXCEPT !.pc = "unretweet_find", !.user = u, !.post = p])

\* unretweet_post: the lookup of the retweet post (scalar_one_or_none)
UnretweetFindPost(s) ==
    /\ sess[s].pc = "unretweet_find"
    /\ UNCHANGED <<nextPostId, nextCommentId, nreq, cap, workers>>
    /\ LET u == sess[s].user
           p == sess[s].post
           found == Mirrors(DB, u, p)
       IN  IF Cardinality(found) > 1
             THEN Return(s, DB, Outcome("unretweet", u, p, "InternalError", "multiple_results"))
             ELSE Continue(s, [sess[s] EXCEPT
                      !.pc = "unretweet_commit",
                      !.mirror = IF found = {} THEN NULL ELSE (CHOOSE x \in found : TRUE).id])

\* The retweet entry deleted only when the retweet post is there.
UnretweetDeleteWithPost(db, u, p, stale, mirror) ==
    IF mirror # NULL
      THEN DeletePostCascade(DeleteRetweetRow(db, u, p, stale), mirror)
      ELSE db

\* Only the retweet entry deleted.
UnretweetDeleteEntry(db, u, p, stale, mirror) == DeleteRetweetRow(db, u, p, stale)

\* unretweet_post: db.delete(retweet); if retweet_post: db.delete(retweet_post)
UnretweetDelete(db, u, p, stale, mirror) ==
    LET d == DeleteRetweetRow(db, u, p, stale)
    IN  IF mirror # NULL THEN DeletePostCascade(d, mirror) ELSE d

\* unretweet_post: db.commit()
UnretweetCommit(s) ==
    /\ sess[s].pc = "unretweet_commit"
    /\ UNCHANGED <<nextPostId, nextCommentId, nreq, cap, workers>>
    /\ LET u == sess[s].user
           p == sess[s].post
       IN  Return(s, UnretweetDelete(DB, u, p, sess[s].stale, sess[s].mirror),
                  Outcome("unretweet", u, p, "Success", "unretweeted"))

\* posts.py delete_post, to the ownership check
DeletePostBegin(s) == \E u \in Askers(s), p \in Asked :
    /\ Receive(s, u, p)
    /\ UNCHANGED <<nextPostId, nextCommentId>>
    /\ IF ~PostExists(DB, p)
         THEN Return(s, DB, Outcome("delete_post", u, p, "NotFound", "post_not_found"))
       ELSE IF PostOwner(DB, p) # u
         THEN Return(s, DB, Outcome("delete_post", u, p, "PermissionDenied", "not_author"))
       ELSE Continue(s, [Idle EXCEPT !.pc = "delete_post", !.user = u, !.post = p])

\* delete_post: db.delete(post); db.commit()
DeletePostCommit(s) ==
    /\ sess[s].pc = "delete_post"
    /\ UNCHANGED <<nextPostId, nextCommentId, nreq, cap, workers>>
    /\ LET u == sess[s].user
           p == sess[s].post
       IN  Return(s, DeletePostCascade(DB, p),
                  Outcome("delete_post", u, p, "Success", "deleted"))

RECURSIVE Sum(_, _)
Sum(f, S) ==
    IF S = {} THEN 0
    ELSE LET x == CHOOSE y \in S : TRUE IN f[x] + Sum(f, S \ {x})

\* posts.py _build_post_response: select(func.count(Like.id)).where(Like.post_id == post.id)
LikeCount(l, p) == Sum([u \in Users |-> l[<<u, p>>]], Users)

\* select(func.count(Retweet.id)).where(Retweet.original_post_id == post.id)
RetweetCount(r, p) == Sum([u \in Users |-> r[<<u, p>>]], Users)

\* The count of the top-level comments only.
TopLevelCommentCount(cs, p) ==
    Cardinality({x \in cs : x.post_id = p /\ x.parent_comment_id = NULL})

\* select(func.count(Comment.id)).where(Comment.post_id == post.id)
CommentCount(cs, p) == Cardinality({x \in cs : x.post_id = p})

\* The flag that tells whether the post has a like at all, whoever reads.
LikedByAnyone(db, viewer, p) == LikeCount(db.likes, p) > 0

\* _build_post_response: if current_user_id: a Like row (viewer, p) is selected
IsLiked(db, viewer, p) == viewer # NULL /\ db.likes[<<viewer, p>>] > 0

\* _build_post_response: if current_user_id: a Retweet row (viewer, p) is selected
IsRetweeted(db, viewer, p) == viewer # NULL /\ db.retweets[<<viewer, p>>] > 0

\* _build_post_response: the counts of post p and the viewer's flags, read from
\* the store
Enrich(db, p, viewer) ==
    [id |-> p,
     is_retweet |-> (CHOOSE x \in db.posts : x.id = p).is_retweet,
     like_count |-> LikeCount(db.likes, p),
     retweet_count |-> RetweetCount(db.retweets, p),
     comment_count |-> CommentCount(db.comments, p),
     is_liked |-> IsLiked(db, viewer, p),
     is_retweeted |-> IsRetweeted(db, viewer, p)]

\* scalar_one_or_none() of the viewer's Like or Retweet row raises on two rows
ViewerRowsAmbiguous(db, p, viewer) ==
    viewer # NULL /\ (db.likes[<<viewer, p>>] > 1 \/ db.retweets[<<viewer, p>>] > 1)

\* The retweet post itself enriched in the place of its original.
MirrorAsOriginal(db, p, viewer) ==
    IF (CHOOSE x \in db.posts : x.id = p).is_retweet THEN Enrich(db, p, viewer) ELSE NoPost

\* get_post: if post.is_retweet and post.original_post_id: the original is
\* selected and, if original_post:, enriched; otherwise original_post is None
OriginalPostResponse(db, p, viewer) ==
    LET post == CHOOSE x \in db.posts : x.id = p
        o == post.original_post_id
    IN  IF post.is_retweet /\ o # NULL /\ PostExists(db, o)
          THEN Enrich(db, o, viewer)
          ELSE NoPost

\* PostDetail: the post response and the field original_post
PostDetail(db, p, viewer) ==
    [kind |-> "post", post |-> Enrich(db, p, viewer),
     original_post |-> OriginalPostResponse(db, p, viewer)]

\* The readers of a request session s can take: a user, or nobody signed in
\* (current_user is None).
Viewers(s) == IF s \in Receivers THEN Askers(s) \cup {NULL} ELSE {}

\* posts.py get_post: the post, then its counts.  The handler only reads; it is
\* one step, as it is when requests are served one after the other.
GetPost(s) == \E u \in Viewers(s), p \in Asked :
    /\ Receive(s, u, p)
    /\ UNCHANGED <<posts, nextPostId, likes, retweets, comments, nextCommentId, sess>>
    /\ before' = DB
    /\ IF ~PostExists(DB, p)
         THEN /\ last' = Outcome("get_post", u, p, "NotFound", "post_not_found")
              /\ view' = NoView
       ELSE IF ViewerRowsAmbiguous(DB, p, u)
         THEN /\ last' = Outcome("get_post", u, p, "InternalError", "multiple_results")
              /\ view' = NoView
         ELSE /\ last' = Outcome("get_post", u, p, "Success", "found")
              /\ view' = PostDetail(DB, p, u)
    /\ known' = Known(DB, DB, sess, last')

----------------------------------------------------------------------------
\* Listings

\* created_at (server_default=func.now()): the requests that create rows are
\* served one after the other where listings are read, and the ids come from a
\* sequence, so a row created later has the later time and the higher id.
CreatedAt(x) == x.id

\* order_by(created_at): the rows S, the oldest first
RECURSIVE OrderBy(_)
OrderBy(S) ==
    IF S = {} THEN <<>>
    ELSE LET x == CHOOSE y \in S : \A z \in S : CreatedAt(y) <= CreatedAt(z)
         IN  <<x>> \o OrderBy(S \ {x})

\* order_by(desc(created_at)): the rows S, the newest first
RECURSIVE OrderByDesc(_)
OrderByDesc(S) ==
    IF S = {} THEN <<>>
    ELSE LET x == CHOOSE y \in S : \A z \in S : CreatedAt(y) >= CreatedAt(z)
         IN  <<x>> \o OrderByDesc(S \ {x})

\* An offset that skips one row more.
RECURSIVE OffsetOneMore(_, _)
OffsetOneMore(rows, n) ==
    IF rows = <<>> THEN rows
    ELSE IF n = 0 THEN Tail(rows)
    ELSE OffsetOneMore(Tail(rows), n - 1)

\* .offset(n): the rows without the first n
RECURSIVE Offset(_, _)
Offset(rows, n) ==
    IF n = 0 \/ rows = <<>> THEN rows ELSE Offset(Tail(rows), n - 1)

\* .limit(n): the first n rows, or all when there are fewer
RECURSIVE Limit(_, _)
Limit(rows, n) ==
    IF n = 0 \/ rows = <<>> THEN <<>> ELSE <<Head(rows)>> \o Limit(Tail(rows), n - 1)

\* PaginationParams: the page asked for (from 1) and the page size, with
\* skip = (page - 1) * page_size and limit = page_size
PaginationParams(page, size) ==
    [page |-> page, page_size |-> size, skip |-> (page - 1) * size, limit |-> size]

\* The quotient rounded down.
TotalPagesFloor(total, size) == total \div size

\* "total_pages": (total + pagination.page_size - 1) // pagination.page_size
TotalPages(total, size) == (total + size - 1) \div size

\* The envelope of a listing.
Listing(items, total, pagination) ==
    [kind |-> "list", items |-> items, total |-> total, page |-> pagination.page,
     page_size |-> pagination.page_size,
     total_pages |-> TotalPages(total, pagination.page_size)]

\* query.offset(pagination.skip).limit(pagination.limit) on the ordered rows
PageOf(rows, pagination) == Limit(Offset(rows, pagination.skip), pagination.limit)

\* A listing of n rows in their order is asked for: page and size as the caller
\* gives them.
Query(n, page, size) ==
    [kind |-> "query", rows |-> [i \in 1..n |-> i], page |-> page, page_size |-> size]

\* The count, the page and the envelope of a listing handler on the rows of
\* view.
Paginate ==
    /\ view.kind = "query"
    /\ LET pagination == PaginationParams(view.page, view.page_size)
       IN  view' = Listing(PageOf(view.rows, pagination), Len(view.rows), pagination)
    /\ UNCHANGED <<posts, nextPostId, likes, retweets, comments, nextCommentId,
                   sess, last, before, known, nreq, cap, workers>>

\* The pages and the page sizes the listing requests of the model ask for.
Pages == 1..MaxPage

PageSizes == 1..MaxPageSize

\* The feed with the retweet posts in it.
AllPostRows(db) == db.posts

\* get_posts: .where(Post.is_retweet == False)
FeedRows(db) == {x \in db.posts : ~x.is_retweet}

\* posts.py get_posts: the count, the page of posts, each enriched.  The handler
\* only reads; it is one step, as it is when requests are served one after the
\* other.
ListFeed(s) == \E u \in Viewers(s), page \in Pages, size \in PageSizes :
    /\ Receive(s, u, NULL)
    /\ UNCHANGED <<posts, nextPostId, likes, retweets, comments, nextCommentId, sess>>
    /\ before' = DB
    /\ LET pagination == PaginationParams(page, size)
           total == Cardinality(FeedRows(DB))
           rows == PageOf(OrderByDesc(FeedRows(DB)), pagination)
       IN  IF \E i \in 1..Len(rows) : ViewerRowsAmbiguous(DB, rows[i].id, u)
             THEN /\ last' = Outcome("get_posts", u, NULL, "InternalError", "multiple_results")
                  /\ view' = NoView
             ELSE /\ last' = Outcome("get_posts", u, NULL, "Success", "listed")
                  /\ view' = Listing([i \in 1..Len(rows) |-> Enrich(DB, rows[i].id, u)],
                                     total, pagination)
    /\ known' = Known(DB, DB, sess, last')

\* The check left out.
SamePostUnchecked(db, par, p) == TRUE

\* create_comment's check "Parent comment must be on the same post"
SamePost(db, par, p) == TheComment(db, par).post_id = p

\* comments.py create_comment, to the checks of the post and of the parent (one
\* step: a post that goes between the two SELECTs takes the parent with it, and
\* the request ends in NotFound on the parent instead of on the post).  The
\* handlers read a content only to tell whether an update changes it: every
\* new comment carries the first text.
CreateCommentBegin(s) ==
  \E u \in Askers(s), p \in Asked, par \in {NULL} \cup AskedComments, c \in {1} :
    /\ par <= nextCommentId
    /\ c = 1
    /\ Receive(s, u, p)
    /\ UNCHANGED <<nextPostId, nextCommentId>>
    /\ IF ~PostExists(DB, p)
         THEN Return(s, DB, CommentOutcome("create_comment", u, p, NULL, par,
                                           "NotFound", "post_not_found"))
       ELSE IF par # NULL /\ ~CommentExists(DB, par)
         THEN Return(s, DB, CommentOutcome("create_comment", u, p, NULL, par,
                                           "NotFound", "parent_not_found"))
       ELSE IF par # NULL /\ ~SamePost(DB, par, p)
         THEN Return(s, DB, CommentOutcome("create_comment", u, p, NULL, par,
                                           "InvalidArgument", "parent_on_other_post"))
       ELSE Continue(s, [Idle EXCEPT !.pc = "create_comment", !.user = u, !.post = p,
                                     !.parent = par, !.content = c])

\* The flush of create_comment's INSERT: does the store reject it (the foreign
\* keys post_id and parent_comment_id)
CommentIntegrityError(db, p, par) ==
    ~ForeignKeyPost(db, p) \/ (par # NULL /\ ~CommentExists(db, par))

\* create_comment: db.add(new_comment); db.commit().  An IntegrityError is not
\* caught: get_db rolls back and the request ends in an internal error.
CreateCommentCommit(s) ==
    /\ sess[s].pc = "create_comment"
    /\ UNCHANGED <<nextPostId, nreq, cap, workers>>
    /\ LET u == sess[s].user
           p == sess[s].post
           par == sess[s].parent
       IN  IF CommentIntegrityError(DB, p, par)
             THEN /\ UNCHANGED nextCommentId
                  /\ Return(s, Rollback(DB, DB),
                            CommentOutcome("create_comment", u, p, NULL, par,
                                           "InternalError", "integrity_error"))
             ELSE /\ nextCommentId <= MaxComments
                  /\ nextCommentId' = nextCommentId + 1
                  /\ Proceed(s, InsertComment(DB, CommentRow(nextCommentId, u, p, par,
                                                             sess[s].content)),
                             [sess[s] EXCEPT !.pc = "create_comment_refresh",
                                             !.comment = nextCommentId])

\* create_comment: db.refresh(new_comment), which raises when the row is gone,
\* and the response
CreateCommentRefresh(s) ==
    /\ sess[s].pc = "create_comment_refresh"
    /\ UNCHANGED <<nextPostId, nextCommentId, nreq, cap, workers>>
    /\ LET r == sess[s]
       IN  IF CommentExists(DB, r.comment)
             THEN Return(s, DB, CommentOutcome("create_comment", r.user, r.post, r.comment,
                                               r.parent, "Success", "created"))
             ELSE Return(s, DB, CommentOutcome("create_comment", r.user, r.post, r.comment,
                                               r.parent, "InternalError", "refresh_failed"))

\* The check against the owner of the post commented on.
AuthorOrPostOwner(db, c, u) ==
    TheComment(db, c).user_id = u \/ PostOwner(db, TheComment(db, c).post_id) = u

\* update_comment's and delete_comment's check comment.user_id != current_user.id
IsAuthor(db, c, u) == TheComment(db, c).user_id = u

\* comments.py update_comment, to the ownership check
UpdateCommentBegin(s) ==
  \E u \in Askers(s), c \in AskedComments, content \in Contents :
    /\ c <= nextCommentId
    /\ Receive(s, u, NULL)
    /\ UNCHANGED <<nextPostId, nextCommentId>>
    /\ IF ~CommentExists(DB, c)
         THEN Return(s, DB, CommentOutcome("update_comment", u, NULL, c, NULL,
                                           "NotFound", "comment_not_found"))
       ELSE IF ~IsAuthor(DB, c, u)
         THEN Return(s, DB, CommentOutcome("update_comment", u, NULL, c, NULL,
                                           "PermissionDenied", "not_author"))
       ELSE Continue(s, [Idle EXCEPT !.pc = "update_comment", !.user = u, !.comment = c,
                                     !.old = TheComment(DB, c).content,
                                     !.content = content])

\* update_comment: comment.content = ...; db.commit().  The flush issues no
\* UPDATE when the content is the one loaded; an UPDATE that matches no row
\* raises StaleDataError: rollback, internal error.
UpdateCommentCommit(s) ==
    /\ sess[s].pc = "update_comment"
    /\ UNCHANGED <<nextPostId, nextCommentId, nreq, cap, workers>>
    /\ LET r == sess[s]
           next == [r EXCEPT !.pc = "update_comment_refresh"]
       IN  IF r.content = r.old
             THEN Proceed(s, DB, next)
           ELSE IF ~CommentExists(DB, r.comment)
             THEN Return(s, Rollback(DB, DB),
                         CommentOutcome("update_comment", r.user, NULL, r.comment, NULL,
                                        "InternalError", "stale_data"))
           ELSE Proceed(s, SetContent(DB, r.comment, r.content), next)

\* update_comment: db.refresh(comment) and the response
UpdateCommentRefresh(s) ==
    /\ sess[s].pc = "update_comment_refresh"
    /\ UNCHANGED <<nextPostId, nextCommentId, nreq, cap, workers>>
    /\ LET r == sess[s]
       IN  IF CommentExists(DB, r.comment)
             THEN Return(s, DB, CommentOutcome("update_comment", r.user, NULL, r.comment,
                                               NULL, "Success", "updated"))
             ELSE Return(s, DB, CommentOutcome("update_comment", r.user, NULL, r.comment,
                                               NULL, "InternalError", "refresh_failed"))

\* comments.py delete_comment, to the ownership check
DeleteCommentBegin(s) == \E u \in Askers(s), c \in AskedComments :
    /\ c <= nextCommentId
    /\ Receive(s, u, NULL)
    /\ UNCHANGED <<nextPostId, nextCommentId>>
    /\ IF ~CommentExists(DB, c)
         THEN Return(s, DB, CommentOutcome("delete_comment", u, NULL, c, NULL,
                                           "NotFound", "comment_not_found"))
       ELSE IF ~IsAuthor(DB, c, u)
         THEN Return(s, DB, CommentOutcome("delete_comment", u, NULL, c, NULL,
                                           "PermissionDenied", "not_author"))
       ELSE Continue(s, [Idle EXCEPT !.pc = "delete_comment", !.user = u, !.comment = c])

\* delete_comment: db.delete(comment); db.commit()
DeleteCommentCommit(s) ==
    /\ sess[s].pc = "delete_comment"
    /\ UNCHANGED <<nextPostId, nextCommentId, nreq, cap, workers>>
    /\ LET r == sess[s]
       IN  Return(s, DeleteCommentCascade(DB, r.comment),
                  CommentOutcome("delete_comment", r.user, NULL, r.comment, NULL,
                                 "Success", "deleted"))

----------------------------------------------------------------------------
Next ==
    \E s \in Sessions :
        \/ CreatePost(s)
        \/ LikeBegin(s)
        \/ LikeCommit(s)
        \/ UnlikeBegin(s)
        \/ UnlikeCommit(s)
        \/ RetweetBegin(s)
        \/ RetweetCommit(s)
        \/ UnretweetBegin(s)
        \/ UnretweetFindPost(s)
        \/ UnretweetCommit(s)
        \/ DeletePostBegin(s)
        \/ DeletePostCommit(s)

\* The requests on comments.
CommentRequests(s) ==
    \/ CreateCommentBegin(s)
    \/ CreateCommentCommit(s)
    \/ CreateCommentRefresh(s)
    \/ UpdateCommentBegin(s)
    \/ UpdateCommentCommit(s)
    \/ UpdateCommentRefresh(s)
    \/ DeleteCommentBegin(s)
    \/ DeleteCommentCommit(s)

\* The requests on posts and on their comments.
CommentNext ==
    \E s \in Sessions :
        \/ CreatePost(s)
        \/ DeletePostBegin(s)
        \/ DeletePostCommit(s)
        \/ CommentRequests(s)

\* Requests as concurrent transactions.
CommentSpec == Init /\ [][CommentNext]_vars

\* Requests one after the other.
SeqCommentSpec == Start(MaxRequests, 1) /\ [][CommentNext]_vars

\* Requests as concurrent transactions.
Spec == Init /\ [][Next]_vars

\* Requests one after the other: with one session a handler returns before the
\* next request is received.
SeqSpec == Start(MaxRequests, 1) /\ [][Next]_vars

\* Every request.
AllNext ==
    \/ Next
    \/ \E s \in Sessions :
          \/ CommentRequests(s)
          \/ GetPost(s)

\* Every request, the requests served one after the other.
SeqAllSpec == Start(MaxRequests, 1) /\ [][AllNext]_vars

\* comments.py _build_comment_response:
\* select(func.count(Comment.id)).where(Comment.parent_comment_id == comment.id)
ReplyCount(cs, c) == Cardinality({x \in cs : x.parent_comment_id = c})

\* _build_comment_response: the comment and its reply count, read from the store
EnrichComment(db, x) ==
    [id |-> x.id, user_id |-> x.user_id, post_id |-> x.post_id,
     parent_comment_id |-> x.parent_comment_id, content |-> x.content,
     reply_count |-> ReplyCount(db.comments, x.id)]

\* Every comment of the post, the replies among them.
AllCommentRows(db, p) == {x \in db.comments : x.post_id = p}

\* get_post_comments: .where(Comment.post_id == post_id,
\* Comment.parent_comment_id.is_(None))
TopLevelRows(db, p) == {x \in db.comments : x.post_id = p /\ x.parent_comment_id = NULL}

\* comments.py get_post_comments: the post, the count, the page of top-level
\* comments, each with its reply count.  The handler takes no user and only
\* reads; it is one step, as it is when requests are served one after the other.
ListTopLevelComments(s) == \E p \in Asked, page \in Pages, size \in PageSizes :
    /\ Receive(s, NULL, p)
    /\ UNCHANGED <<posts, nextPostId, likes, retweets, comments, nextCommentId, sess>>
    /\ before' = DB
    /\ IF ~PostExists(DB, p)
         THEN /\ last' = Outcome("get_post_comments", NULL, p, "NotFound", "post_not_found")
              /\ view' = NoView
         ELSE LET pagination == PaginationParams(page, size)
                  total == Cardinality(TopLevelRows(DB, p))
                  rows == PageOf(OrderByDesc(TopLevelRows(DB, p)), pagination)
              IN  /\ last' = Outcome("get_post_comments", NULL, p, "Success", "listed")
                  /\ view' = Listing([i \in 1..Len(rows) |-> EnrichComment(DB, rows[i])],
                                     total, pagination)
    /\ known' = Known(DB, DB, sess, last')

\* The whole thread below the comment.
AllDescendants(db, c) == {x \in db.comments : x.id \in DoomedComments(db.comments, {c}) \ {c}}

\* get_comment: .where(Comment.parent_comment_id == comment_id)
DirectReplies(db, c) == {x \in db.comments : x.parent_comment_id = c}

\* comments.py get_comment: the comment, its direct replies by creation time,
\* each with its reply count.  One step, as for the other reads.
GetComment(s) == \E c \in AskedComments :
    /\ Receive(s, NULL, NULL)
    /\ UNCHANGED <<posts, nextPostId, likes, retweets, comments, nextCommentId, sess>>
    /\ before' = DB
    /\ IF ~CommentExists(DB, c)
         THEN /\ last' = CommentOutcome("get_comment", NULL, NULL, c, NULL,
                                        "NotFound", "comment_not_found")
              /\ view' = NoView
         ELSE LET rows == OrderBy(DirectReplies(DB, c))
              IN  /\ last' = CommentOutcome("get_comment", NULL, NULL, c, NULL,
                                            "Success", "found")
                  /\ view' = [kind |-> "comment",
                              comment |-> EnrichComment(DB, TheComment(DB, c)),
                              replies |-> [i \in 1..Len(rows) |-> EnrichComment(DB, rows[i])]]
    /\ known' = Known(DB, DB, sess, last')

\* The posts, the comments and the reads of the threads.
ThreadNext ==
    \E s \in Sessions :
        \/ CreatePost(s)
        \/ CreateCommentBegin(s)
        \/ CreateCommentCommit(s)
        \/ CreateCommentRefresh(s)
        \/ DeleteCommentBegin(s)
        \/ DeleteCommentCommit(s)
        \/ ListTopLevelComments(s)
        \/ GetComment(s)

\* Requests one after the other, enough of them for a reply to a reply to be
\* read.
ThreadSpec == Start(MaxThreadRequests, 1) /\ [][ThreadNext]_vars

\* Every request that writes.
WriteNext == Next \/ \E s \in Sessions : CommentRequests(s)

\* Requests as concurrent transactions.
WriteSpec == Init /\ [][WriteNext]_vars

\* The posts, the retweets and the reads of the feed.
FeedNext ==
    \E s \in Sessions :
        \/ CreatePost(s)
        \/ RetweetBegin(s)
        \/ RetweetCommit(s)
        \/ DeletePostBegin(s)
        \/ DeletePostCommit(s)
        \/ ListFeed(s)

\* Requests one after the other.
FeedSpec == Start(MaxRequests, 1) /\ [][FeedNext]_vars

\* The arithmetic of a listing on its own: any number of rows up to MaxRows,
\* any page up to MaxPageNo, any page size from 1 to MaxSize.
PageInit ==
    /\ Empty
    /\ cap = 0
    /\ workers = 1
    /\ \E n \in 0..MaxRows, page \in 1..MaxPageNo, size \in 1..MaxSize :
          view = Query(n, page, size)

PageSpec == PageInit /\ [][Paginate]_vars

----------------------------------------------------------------------------
\* What the properties below speak of

\* The store after the step.
DBNext ==
    [posts |-> posts', likes |-> likes', retweets |-> retweets', comments |-> comments']

\* The step completes a request: a handler returns its response, last'.
Completes == last'.n = last.n + 1

\* The step completes request op of user u on post p.
Answers(op, u, p) ==
    Completes /\ last'.op = op /\ last'.user = u /\ last'.post = p

\* The request completed last was op of user u on post p and succeeded.
Succeeded(op, u, p) ==
    last.op = op /\ last.user = u /\ last.post = p /\ last.res = "Success"

----------------------------------------------------------------------------
\* C1: in every state reachable by any interleaving of Like, Unlike, Retweet,
\* Unretweet, CreatePost and DeletePost requests the store holds at most one
\* Like row for each (user, post) pair.
AtMostOneLikePerPair == \A k \in Pairs : likes[k] <= 1

\* A Like lost the race for its pair: the constraint rejected its INSERT and
\* the one row of the pair is in the store.
C1_Witness ==
    /\ last.op = "like"
    /\ last.detail = "unable_to_like"
    /\ likes[<<last.user, last.post>>] = 1

\* C2: of two Like requests for one (user, post) pair that both pass the
\* pre-check before either commits, the one that commits first succeeds and
\* the other, committing next, ends in Conflict (not in an internal error);
\* exactly one Like row of the pair is in the store after each commit.
ConcurrentLikes ==
    [][\A s \in Sessions :
         (sess[s].pc = "like" /\ sess'[s].pc = "idle") =>
           LET u == sess[s].user
               p == sess[s].post
               rival == \E t \in Sessions \ {s} :
                           sess[t].pc = "like" /\ sess[t].user = u /\ sess[t].post = p
           IN  /\ (rival /\ likes[<<u, p>>] = 0 /\ PostExists(DB, p)) =>
                     (last'.res = "Success" /\ likes'[<<u, p>>] = 1)
               /\ Succeeded("like", u, p) =>
                     (last'.res = "Conflict" /\ likes' = likes /\ likes'[<<u, p>>] = 1)
      ]_vars

\* Both requests of a race have completed: the second has just ended in Conflict
\* on the constraint, right after the first succeeded.
C2_Witness ==
    /\ last.op = "like"
    /\ last.res = "Conflict"
    /\ last.detail = "unable_to_like"
    /\ before.likes[<<last.user, last.post>>] = 1
    /\ likes[<<last.user, last.post>>] = 1
    /\ \A s \in Sessions : sess[s].pc = "idle"

\* C3: requests served one after the other.  Like(u,p) on an existing post p
\* that u has not liked succeeds, and a Like(u,p) right after a successful
\* Like(u,p) ends in Conflict; Unlike(u,p) of an existing Like succeeds, and an
\* Unlike(u,p) right after a successful Unlike(u,p) ends in NotFound.
LikeTwiceUnlikeTwice ==
    [][\A u \in Users, p \in PostIds :
         /\ Answers("like", u, p) =>
              /\ (PostExists(DB, p) /\ likes[<<u, p>>] = 0) => last'.res = "Success"
              /\ Succeeded("like", u, p) => last'.res = "Conflict"
         /\ Answers("unlike", u, p) =>
              /\ likes[<<u, p>>] = 1 => last'.res = "Success"
              /\ Succeeded("unlike", u, p) => last'.res = "NotFound"
      ]_vars

\* The third request, after a CreatePost and a Like, is the Like again and has
\* ended in Conflict.
C3_Witness ==
    /\ last.op = "like"
    /\ last.res = "Conflict"
    /\ last.detail = "already_liked"
    /\ likes[<<last.user, last.post>>] = 1
    /\ nextPostId = 2
    /\ last.n = 3

\* C4: requests served one after the other.  An Unlike(u,p) right after a
\* successful Like(u,p) succeeds and leaves the Like rows as they were before
\* the Like, and likeCount(p) as it was.
LikeUnlikeRoundTrip ==
    [][\A u \in Users, p \in PostIds :
         (Succeeded("like", u, p) /\ Answers("unlike", u, p)) =>
            /\ last'.res = "Success"
            /\ before.likes[<<u, p>>] = 0
            /\ likes' = before.likes
            /\ LikeCount(likes', p) = LikeCount(before.likes, p)
      ]_vars

\* An Unlike has removed the one Like of its pair, another user's Like of the
\* same post staying.
C4_Witness ==
    /\ last.op = "unlike"
    /\ last.res = "Success"
    /\ before.likes[<<last.user, last.post>>] = 1
    /\ likes[<<last.user, last.post>>] = 0
    /\ LikeCount(likes, last.post) = 1

\* C5: requests served one after the other.  A successful Retweet(u,p) adds
\* exactly one Retweet row (u,p) and exactly one Post row, owned by u, with
\* is_retweet set and original_post_id = p, u not being p's author; an
\* Unretweet(u,p) right after it succeeds and removes both rows.
RetweetAddsUnretweetRemoves ==
    [][\A u \in Users, p \in PostIds :
         /\ (Answers("retweet", u, p) /\ last'.res = "Success") =>
              /\ PostOwner(DB, p) # u
              /\ retweets' = [retweets EXCEPT ![<<u, p>>] = @ + 1]
              /\ \E id \in PostIds :
                    /\ ~PostExists(DB, id)
                    /\ posts' = posts \cup {RetweetPost(id, u, p)}
         /\ (Succeeded("retweet", u, p) /\ Answers("unretweet", u, p)) =>
              /\ last'.res = "Success"
              /\ Cardinality(Mirrors(DB, u, p)) = 1
              /\ posts' = posts \ Mirrors(DB, u, p)
              /\ retweets[<<u, p>>] = 1
              /\ retweets' = [retweets EXCEPT ![<<u, p>>] = 0]
      ]_vars

\* The third request, after a CreatePost and a Retweet, is the Unretweet and has
\* left one post and no Retweet row.
C5_Witness ==
    /\ last.op = "unretweet"
    /\ last.res = "Success"
    /\ nextPostId = 3
    /\ last.n = 3
    /\ Cardinality(posts) = 1
    /\ \A k \in Pairs : retweets[k] = 0

\* C6: a Retweet(u,p) of an existing post p that u owns ends in Conflict in
\* every reachable state and leaves the tables posts and retweets unchanged.
OwnRetweetConflict ==
    [][\A u \in Users, p \in PostIds :
         (Answers("retweet", u, p) /\ PostExists(DB, p) /\ PostOwner(DB, p) = u) =>
            /\ last'.res = "Conflict"
            /\ posts' = posts
            /\ retweets' = retweets
      ]_vars

\* A user who has liked their own post and retweeted another's has been refused
\* the Retweet of their own post.
C6_Witness ==
    /\ last.op = "retweet"
    /\ last.res = "Conflict"
    /\ last.detail = "own_post"
    /\ likes[<<last.user, last.post>>] = 1
    /\ \E q \in PostIds : retweets[<<last.user, q>>] = 1

\* C7: in every reachable state no Retweet row (u, p) references a post p that
\* u owns.
NoRetweetOfOwnPost ==
    \A k \in Pairs :
        retweets[k] > 0 => \A x \in PostById(DB, k[2]) : x.user_id # k[1]

\* A post is retweeted by another user, and its owner's Retweet of it has been
\* refused.
C7_Witness ==
    /\ last.op = "retweet"
    /\ last.detail = "own_post"
    /\ \E u \in Users : u # last.user /\ retweets[<<u, last.post>>] = 1

\* C8: in every reachable state every Post row with is_retweet set, owned by u
\* and with original_post_id = p, has a Retweet row (u, p).
EveryMirrorHasRetweet ==
    \A x \in posts :
        x.is_retweet => retweets[<<x.user_id, x.original_post_id>>] >= 1

\* The fourth request is a DeletePost that has emptied a store of three posts,
\* two of them retweet posts.
C8_Witness ==
    /\ last.op = "delete_post"
    /\ last.res = "Success"
    /\ last.n = 4
    /\ nextPostId = 4
    /\ posts = {}

\* C9: in every state reachable by requests served one after the other every
\* Retweet row (u, p) has a Post row owned by u with is_retweet set and
\* original_post_id = p.
EveryRetweetHasMirror ==
    \A k \in Pairs : retweets[k] > 0 => Mirrors(DB, k[1], k[2]) # {}

\* C10: a Retweet row of a pair (u, p) enters the store in the step in which a
\* retweet post of (u, p) enters it, and in no other; a Retweet whose commit
\* fails leaves the tables posts and retweets as they were.
RetweetCommitsBothOrNeither ==
    [][/\ \A k \in Pairs :
             (retweets'[k] > retweets[k]) <=>
                (\E x \in posts' \ posts :
                    x.is_retweet /\ x.user_id = k[1] /\ x.original_post_id = k[2])
       /\ (Completes /\ last'.op = "retweet" /\ last'.res # "Success") =>
             (posts' = posts /\ retweets' = retweets)
      ]_vars

\* A Retweet has failed at its commit, the rival's Retweet row and retweet post
\* being the only ones of the pair.
C10_Witness ==
    /\ last.op = "retweet"
    /\ last.detail = "unable_to_retweet"
    /\ retweets[<<last.user, last.post>>] = 1
    /\ Cardinality(Mirrors(DB, last.user, last.post)) = 1

\* C11: in every state reachable by any sequence or interleaving of requests
\* the store holds at most one Retweet row for each (user, original_post_id)
\* pair.
AtMostOneRetweetPerPair == \A k \in Pairs : retweets[k] <= 1

\* A Retweet has passed the pre-check and lost the race for its pair: the one
\* Retweet row of the pair is the rival's, in the store when the commit failed,
\* and every handler has returned.
C11_Witness ==
    /\ last.op = "retweet"
    /\ last.detail = "unable_to_retweet"
    /\ retweets[<<last.user, last.post>>] = 1
    /\ before.retweets[<<last.user, last.post>>] = 1
    /\ \A s \in Sessions : sess[s].pc = "idle"

\* C12: of two Retweet requests for one (user, post) pair that both pass the
\* pre-check before either commits, the one that commits first succeeds and
\* the other, committing next, ends in Conflict (not in an internal error);
\* after each of the two commits exactly one Retweet row and exactly one
\* mirrored Post row of the pair are in the store.
ConcurrentRetweets ==
    [][\A s \in Sessions :
         (sess[s].pc = "retweet" /\ sess'[s].pc = "idle") =>
           LET u == sess[s].user
               p == sess[s].post
               rival == \E t \in Sessions \ {s} :
                           sess[t].pc = "retweet" /\ sess[t].user = u /\ sess[t].post = p
               one == /\ retweets'[<<u, p>>] = 1
                      /\ Cardinality(Mirrors(DBNext, u, p)) = 1
           IN  /\ (rival /\ retweets[<<u, p>>] = 0 /\ PostExists(DB, p)) =>
                     (last'.res = "Success" /\ one)
               /\ Succeeded("retweet", u, p) =>
                     (last'.res = "Conflict" /\ one /\ DBNext = DB)
      ]_vars

\* Both requests of a race have completed: the second has just ended in Conflict
\* at its commit, right after the first succeeded, and the pair has one Retweet
\* row and one mirrored post.
C12_Witness ==
    /\ last.op = "retweet"
    /\ last.res = "Conflict"
    /\ last.detail = "unable_to_retweet"
    /\ before = DB
    /\ retweets[<<last.user, last.post>>] = 1
    /\ Cardinality(Mirrors(DB, last.user, last.post)) = 1
    /\ Cardinality(posts) = 2

\* C13: requests served one after the other.  Unretweet(u,p) ends in NotFound
\* and changes nothing when no Retweet row (u,p) exists; when the row exists it
\* succeeds and removes it, whether the mirrored Post row is there (it is
\* removed too) or already absent.
UnretweetOutcomes ==
    [][\A u \in Users, p \in PostIds :
         Answers("unretweet", u, p) =>
            /\ retweets[<<u, p>>] = 0 => (last'.res = "NotFound" /\ DBNext = DB)
            /\ retweets[<<u, p>>] = 1 =>
                  /\ last'.res = "Success"
                  /\ retweets'[<<u, p>>] = 0
                  /\ Mirrors(DBNext, u, p) = {}
                  /\ Mirrors(DB, u, p) = {} =>
                        DBNext = [DB EXCEPT !.retweets = [@ EXCEPT ![<<u, p>>] = 0]]
      ]_vars

\* An Unretweet has succeeded on a Retweet row whose mirrored post its owner
\* had deleted through DeletePost: the row is gone and no post went with it.
C13_Witness ==
    /\ last.op = "unretweet"
    /\ last.res = "Success"
    /\ before.retweets[<<last.user, last.post>>] = 1
    /\ Mirrors(before, last.user, last.post) = {}
    /\ retweets[<<last.user, last.post>>] = 0
    /\ posts = before.posts

\* C14: requests served one after the other.  After a successful DeletePost(p)
\* the store holds no Post row p, no Like row with post p, no Retweet row with
\* original_post_id p and no Comment row with post p, top-level or reply; a
\* GetPost(p) of a post that is not in the store ends in NotFound.
DeletePostLeavesNothing ==
    [][\A u \in Users, p \in PostIds :
         /\ (Answers("delete_post", u, p) /\ last'.res = "Success") =>
              /\ ~PostExists(DBNext, p)
              /\ \A v \in Users : likes'[<<v, p>>] = 0 /\ retweets'[<<v, p>>] = 0
              /\ \A x \in comments' : x.post_id # p
         /\ (Answers("get_post", u, p) /\ ~PostExists(DB, p)) => last'.res = "NotFound"
      ]_vars

\* A DeletePost has succeeded on a post that carried a comment and a reply to
\* it, and has left no comment in the store.
C14_Witness ==
    /\ last.op = "delete_post"
    /\ last.res = "Success"
    /\ \E x \in before.comments :
          /\ x.post_id = last.post
          /\ x.parent_comment_id # NULL
          /\ CommentExists(before, x.parent_comment_id)
    /\ comments = {}

\* The posts that have been retweeted: a mirrored post refers to them.
Retweeted(db, p) == \E x \in db.posts : x.is_retweet /\ x.original_post_id = p

\* C15 as stated: a successful DeletePost of a post p that has been retweeted
\* removes the Retweet rows pointing at p and leaves the mirrored Post rows
\* (is_retweet set, original_post_id = p) in the store.
DeletePostOrphansMirrors ==
    [][\A u \in Users, p \in PostIds :
         (Answers("delete_post", u, p) /\ last'.res = "Success" /\ Retweeted(DB, p)) =>
            /\ \A v \in Users : retweets'[<<v, p>>] = 0
            /\ \A x \in posts : x.original_post_id = p => x \in posts'
      ]_vars

\* C15 amended: a successful DeletePost of a post p that has been retweeted
\* removes the Retweet rows pointing at p and the mirrored Post rows too: no
\* post with original_post_id = p stays, and the posts that go are p and posts
\* whose original went with them.
DeletePostDeletesMirrors ==
    [][\A u \in Users, p \in PostIds :
         (Answers("delete_post", u, p) /\ last'.res = "Success" /\ Retweeted(DB, p)) =>
            /\ \A v \in Users : retweets'[<<v, p>>] = 0
            /\ \A x \in posts' : x.original_post_id # p
            /\ posts' \subseteq posts
            /\ \A x \in posts \ posts' :
                  x.id = p \/ \E y \in posts \ posts' : y.id = x.original_post_id
      ]_vars

\* A DeletePost has succeeded on a post another user had retweeted: the Retweet
\* row and the mirrored post, in the store before, are gone, another post staying.
C15_Witness ==
    /\ last.op = "delete_post"
    /\ last.res = "Success"
    /\ \E x \in before.posts :
          /\ x.is_retweet
          /\ x.original_post_id = last.post
          /\ before.retweets[<<x.user_id, last.post>>] = 1
          /\ retweets[<<x.user_id, last.post>>] = 0
          /\ x \notin posts
    /\ posts # {}

\* Comment x is c or a reply, at any depth, to c: the parent links lead from x
\* to c.
RECURSIVE InSubtree(_, _, _)
InSubtree(cs, x, c) ==
    \/ x.id = c
    \/ /\ x.parent_comment_id # NULL
       /\ \E y \in cs : y.id = x.parent_comment_id /\ InSubtree(cs, y, c)

CreateCommentFailures ==
    [][/\ \A s \in Sessions :
            (sess[s].pc = "idle" /\ sess'[s].pc = "create_comment") =>
               LET r == sess'[s]
               IN  /\ PostExists(DB, r.post)
                   /\ r.parent # NULL =>
                         /\ CommentExists(DB, r.parent)
                         /\ TheComment(DB, r.parent).post_id = r.post
       /\ (Completes /\ last'.op = "create_comment") =>
          LET p == last'.post
              par == last'.parent
              atChecks == nreq' = nreq + 1
          IN  /\ (atChecks /\ ~PostExists(DB, p)) => last'.res = "NotFound"
              /\ (atChecks /\ PostExists(DB, p) /\ par # NULL /\ ~CommentExists(DB, par)) =>
                     last'.res = "NotFound"
              /\ (atChecks /\ PostExists(DB, p) /\ par # NULL /\ CommentExists(DB, par)
                     /\ TheComment(DB, par).post_id # p) =>
                     last'.res = "InvalidArgument"
              /\ last'.res # "Success" =>
                     /\ comments' = comments
                     /\ nextCommentId' = nextCommentId
                     /\ ~CommentExists(DBNext, last'.comment)
      ]_vars

\* A reply to a comment of another post has been refused: two posts, the one
\* comment of the store on the other post than the one the request named.
C17_Witness ==
    /\ last.op = "create_comment"
    /\ last.res = "InvalidArgument"
    /\ PostExists(DB, last.post)
    /\ CommentExists(DB, last.parent)
    /\ TheComment(DB, last.parent).post_id # last.post
    /\ Cardinality(comments) = 1

\* C18: in every reachable state every comment with a parent_comment_id has the
\* post_id of its parent comment.
ReplyOnParentsPost ==
    \A x \in comments :
        x.parent_comment_id # NULL =>
            \A y \in CommentById(DB, x.parent_comment_id) : y.post_id = x.post_id

\* A reply is in the store with its parent, both on one post of two.
C18_Witness ==
    /\ Cardinality(posts) = 2
    /\ \E x \in comments :
          /\ x.parent_comment_id # NULL
          /\ CommentExists(DB, x.parent_comment_id)
          /\ TheComment(DB, x.parent_comment_id).post_id = x.post_id

\* C19: requests served one after the other.  An UpdateComment or a
\* DeleteComment of comment c ends in NotFound when c is absent and in
\* PermissionDenied when the requester is not c's author, the owner of the
\* post commented on included; in both cases the table comments, contents
\* included, is as it was.  Only the author's request goes on to its commit.
CommentOwnerOnly ==
    [][/\ \A s \in Sessions :
            (sess[s].pc = "idle" /\ sess'[s].pc \in {"update_comment", "delete_comment"}) =>
               /\ CommentExists(DB, sess'[s].comment)
               /\ TheComment(DB, sess'[s].comment).user_id = sess'[s].user
       /\ (Completes /\ last'.op \in {"update_comment", "delete_comment"}) =>
            LET c == last'.comment
            IN  /\ ~CommentExists(DB, c) => last'.res = "NotFound"
                /\ (CommentExists(DB, c) /\ TheComment(DB, c).user_id # last'.user) =>
                      last'.res = "PermissionDenied"
                /\ last'.res \in {"NotFound", "PermissionDenied"} => DBNext = DB
      ]_vars

\* The owner of a post has been refused the update or the deletion of another
\* user's comment on it, and the comment is as it was.
C19_Witness ==
    /\ last.op \in {"update_comment", "delete_comment"}
    /\ last.res = "PermissionDenied"
    /\ CommentExists(DB, last.comment)
    /\ TheComment(DB, last.comment).user_id # last.user
    /\ PostOwner(DB, TheComment(DB, last.comment).post_id) = last.user
    /\ comments = before.comments

\* The rows of post p in a table that holds t[<<v, p>>] rows of user v and post p.
RowsOf(t, p) == UNION {{<<v, i>> : i \in 1..t[<<v, p>>]} : v \in Users}

\* C20: requests served one after the other, Like, Unlike, Retweet, Unretweet,
\* CreateComment, DeleteComment and DeletePost among them.  A successful
\* GetPost(p) reports likeCount = the number of Like rows of p, retweetCount =
\* the number of Retweet rows with original_post_id = p and commentCount = the
\* number of Comment rows of p, replies included, as the store holds them at
\* the read; right after a successful Like, Unlike, Retweet or Unretweet of p
\* the count reported is the one of the store before that request, one up or
\* one down.
EnrichCounts ==
    [][\A u \in Users \cup {NULL}, p \in PostIds :
         (Answers("get_post", u, p) /\ last'.res = "Success") =>
            /\ view'.post.id = p
            /\ view'.post.like_count = Cardinality(RowsOf(likes, p))
            /\ view'.post.retweet_count = Cardinality(RowsOf(retweets, p))
            /\ view'.post.comment_count = Cardinality({x \in comments : x.post_id = p})
            /\ \A v \in Users :
                  /\ Succeeded("like", v, p) =>
                        view'.post.like_count = Cardinality(RowsOf(before.likes, p)) + 1
                  /\ Succeeded("unlike", v, p) =>
                        view'.post.like_count = Cardinality(RowsOf(before.likes, p)) - 1
                  /\ Succeeded("retweet", v, p) =>
                        view'.post.retweet_count = Cardinality(RowsOf(before.retweets, p)) + 1
                  /\ Succeeded("unretweet", v, p) =>
                        view'.post.retweet_count = Cardinality(RowsOf(before.retweets, p)) - 1
      ]_vars

\* A GetPost has reported two comments for a post that has a comment and a
\* reply to it.
C20_Witness ==
    /\ last.op = "get_post"
    /\ last.res = "Success"
    /\ view.post.id = last.post
    /\ view.post.comment_count = 2
    /\ \E x \in comments : x.post_id = last.post /\ x.parent_comment_id # NULL

\* C21: requests served one after the other.  A successful GetPost(p) of viewer
\* u reports isLikedByViewer = true exactly when u is a user and the store holds
\* a Like row (u, p), and isRetweetedByViewer likewise for the Retweet rows;
\* both are false when nobody is signed in.  Right after a successful Like of p
\* by user v the flag is true for viewer v and false for a viewer who had no
\* Like row of p before, and a GetPost(p) that follows a GetPost(p) of another
\* viewer reports the same likeCount.
ViewerFlags ==
    [][\A u \in Users \cup {NULL}, p \in PostIds :
         (Answers("get_post", u, p) /\ last'.res = "Success") =>
            /\ view'.post.is_liked <=> (u \in Users /\ \E r \in RowsOf(likes, p) : r[1] = u)
            /\ view'.post.is_retweeted <=>
                  (u \in Users /\ \E r \in RowsOf(retweets, p) : r[1] = u)
            /\ u = NULL => ~view'.post.is_liked /\ ~view'.post.is_retweeted
            /\ \A v \in Users :
                  Succeeded("like", v, p) =>
                     /\ u = v => view'.post.is_liked
                     /\ (u # v /\ \A r \in RowsOf(before.likes, p) : r[1] # u) =>
                           ~view'.post.is_liked
            /\ (last.op = "get_post" /\ last.post = p /\ last.res = "Success") =>
                  view'.post.like_count = view.post.like_count
      ]_vars

\* A GetPost of a post another user has liked: a viewer without a Like row is
\* told likeCount = 1 and isLikedByViewer = false.
C21_Witness ==
    /\ last.op = "get_post"
    /\ last.res = "Success"
    /\ last.user \in Users
    /\ view.post.like_count = 1
    /\ ~view.post.is_liked
    /\ \E v \in Users \ {last.user} : likes[<<v, last.post>>] = 1

FeedHasNoMirror ==
    [][\A u \in Users \cup {NULL} :
         (Answers("get_posts", u, NULL) /\ last'.res = "Success") =>
            /\ \A i \in 1..Len(view'.items) :
                  /\ ~view'.items[i].is_retweet
                  /\ \E x \in posts : x.id = view'.items[i].id /\ ~x.is_retweet
                  /\ \A x \in posts : x.is_retweet => x.id # view'.items[i].id
            /\ view'.total = Cardinality(posts) - Cardinality({x \in posts : x.is_retweet})
      ]_vars

\* A ListFeed of a store with an original post and its mirrored post: the
\* page holds the original and the total is 1.
C22_Witness ==
    /\ last.op = "get_posts"
    /\ last.res = "Success"
    /\ view.total = 1
    /\ Len(view.items) = 1
    /\ \E m \in posts : m.is_retweet /\ m.original_post_id = view.items[1].id

\* C24: for every total from 0 to MaxRows and every page size from 1 to MaxSize
\* the envelope of a listing reports totalPages = ceil(total / pageSize), the
\* least number of pages of that size that hold total rows: totalPages = 0
\* when total = 0, and totalPages * pageSize >= total > (totalPages - 1) *
\* pageSize when total > 0.
TotalPagesIsCeiling ==
    view.kind = "list" =>
       /\ view.total_pages >= 0
       /\ view.total = 0 => view.total_pages = 0
       /\ view.total > 0 =>
             /\ view.total_pages * view.page_size >= view.total
             /\ view.total > (view.total_pages - 1) * view.page_size
       /\ \A n \in 0..MaxRows : n * view.page_size >= view.total => n >= view.total_pages

\* The listing of 25 rows in pages of 10: three pages.
C24_Witness ==
    /\ view.kind = "list"
    /\ view.total = 25
    /\ view.page_size = 10
    /\ view.total_pages = 3

\* The pages 1..n of the rows, one after the other.
RECURSIVE PagesUpTo(_, _, _)
PagesUpTo(rows, size, n) ==
    IF n = 0 THEN <<>>
    ELSE PagesUpTo(rows, size, n - 1) \o PageOf(rows, PaginationParams(n, size))

\* C25: for a listing of N rows in its order, N from 0 to MaxRows, page k with
\* page size s returns exactly the rows at the positions (k-1)*s+1 ..
\* min(k*s, N) of that order, none when (k-1)*s >= N, with total = N; the pages
\* 1..totalPages one after the other are the listing, no row left out and none
\* twice, and every page after them is empty.
PageIsSliceOfListing ==
    [][(view.kind = "query" /\ view'.kind = "list") =>
         LET N == Len(view.rows)
             k == view.page
             sz == view.page_size
             lo == (k - 1) * sz + 1
             hi == IF k * sz < N THEN k * sz ELSE N
         IN  /\ view'.total = N
             /\ view'.page = k
             /\ view'.page_size = sz
             /\ (k - 1) * sz >= N => view'.items = <<>>
             /\ Len(view'.items) = (IF hi >= lo THEN hi - lo + 1 ELSE 0)
             /\ \A i \in 1..Len(view'.items) : view'.items[i] = view.rows[lo + i - 1]
             /\ PagesUpTo(view.rows, sz, view'.total_pages) = view.rows
             /\ PageOf(view.rows, PaginationParams(view'.total_pages + 1, sz)) = <<>>
      ]_vars

\* Page 2 of 25 rows in pages of 10: the rows 11 to 20, total 25, three pages.
C25_Witness ==
    /\ view.kind = "list"
    /\ view.total = 25
    /\ view.page = 2
    /\ view.page_size = 10
    /\ view.items = [i \in 1..10 |-> 10 + i]
    /\ view.total_pages = 3

\* C27: requests served one after the other, CreateComment and DeleteComment
\* among them.  ListTopLevelComments(p) ends in NotFound when the store holds
\* no post p; otherwise it succeeds, its items are comments of the store whose
\* post is p and whose parent is null, the newest first (a comment created
\* later has the higher id), as many as the page holds, and its total is the
\* number of such comments: a reply is neither listed nor counted.
TopLevelCommentsOnly ==
    [][\A p \in PostIds :
         Answers("get_post_comments", NULL, p) =>
            /\ (\A x \in posts : x.id # p) => last'.res = "NotFound"
            /\ (\E x \in posts : x.id = p) =>
                  LET top == {x \in comments : x.post_id = p /\ x.parent_comment_id = NULL}
                      left == Cardinality(top) - (view'.page - 1) * view'.page_size
                      room == IF left < 0 THEN 0
                              ELSE IF left < view'.page_size THEN left
                              ELSE view'.page_size
                  IN  /\ last'.res = "Success"
                      /\ view'.total = Cardinality(top)
                      /\ Len(view'.items) = room
                      /\ \A i \in 1..Len(view'.items) :
                            /\ view'.items[i].post_id = p
                            /\ view'.items[i].parent_comment_id = NULL
                            /\ \E x \in top : x.id = view'.items[i].id
                      /\ \A i, j \in 1..Len(view'.items) :
                            i < j => view'.items[i].id > view'.items[j].id
                      /\ (view'.page = 1 /\ top # {}) =>
                            \A x \in top : x.id <= view'.items[1].id
      ]_vars

\* A listing of a post with two top-level comments and a reply: the two are
\* listed, the later one first, and the total is 2.
C27_Witness ==
    /\ last.op = "get_post_comments"
    /\ last.res = "Success"
    /\ view.total = 2
    /\ Len(view.items) = 2
    /\ view.items[1].id > view.items[2].id
    /\ \E x \in comments : x.post_id = last.post /\ x.parent_comment_id # NULL

\* C28: requests served one after the other.  A successful
\* GetCommentWithReplies(c) returns comment c and, as replies, exactly the
\* comments of the store whose parent_comment_id is c, each once, the oldest
\* first (a comment created later has the higher id), and no reply of a reply;
\* the replyCount of the comment, of each reply and of each item of
\* ListTopLevelComments is the number of comments of the store whose
\* parent_comment_id is that comment.
DirectRepliesOnly ==
    [][/\ \A c \in CommentIds :
            (Completes /\ last'.op = "get_comment" /\ last'.comment = c
                       /\ last'.res = "Success") =>
               LET children == {x \in comments : x.parent_comment_id = c}
               IN  /\ view'.comment.id = c
                   /\ view'.comment.reply_count = Cardinality(children)
                   /\ Len(view'.replies) = Cardinality(children)
                   /\ {view'.replies[i].id : i \in 1..Len(view'.replies)}
                         = {x.id : x \in children}
                   /\ \A i \in 1..Len(view'.replies) :
                         /\ view'.replies[i].parent_comment_id = c
                         /\ view'.replies[i].reply_count =
                               Cardinality({x \in comments :
                                              x.parent_comment_id = view'.replies[i].id})
                   /\ \A i, j \in 1..Len(view'.replies) :
                         i < j => view'.replies[i].id < view'.replies[j].id
       /\ \A p \in PostIds :
            (Answers("get_post_comments", NULL, p) /\ last'.res = "Success") =>
               \A i \in 1..Len(view'.items) :
                  view'.items[i].reply_count =
                     Cardinality({x \in comments : x.parent_comment_id = view'.items[i].id})
      ]_vars

\* A read of a comment that has a reply which has a reply of its own: one
\* reply is returned, replyCount is 1 for the comment and 1 for its reply.
C28_Witness ==
    /\ last.op = "get_comment"
    /\ last.res = "Success"
    /\ Len(view.replies) = 1
    /\ view.comment.reply_count = 1
    /\ view.replies[1].reply_count = 1
    /\ \E x \in comments : x.parent_comment_id = view.replies[1].id

\* C29: in every interleaving of Like(u, p) with the other requests, a
\* DeletePost(p) that commits between the Like's existence check and its commit
\* among them, the Like ends in NotFound when the store holds no post p as the
\* request completes, and ends in Conflict only when the store holds a Like
\* row (u, p).
LikeOfDeletedPostNotFound ==
    [][\A u \in Users, p \in PostIds :
         Answers("like", u, p) =>
            /\ (\A x \in posts : x.id # p) => last'.res = "NotFound"
            /\ last'.res = "Conflict" => likes[<<u, p>>] > 0
      ]_vars

Failures == {"NotFound", "Conflict", "PermissionDenied", "InvalidArgument", "InternalError"}

MirrorIffOriginalSet ==
    /\ [](\A x \in posts : x.is_retweet <=> x.original_post_id # NULL)
    /\ [][/\ \A x \in posts, y \in posts' : y.id = x.id => y = x
          /\ \A y \in posts' : (\A x \in posts : x.id # y.id) =>
                /\ Completes
                /\ last'.res = "Success"
                /\ \/ /\ last'.op = "create_post"
                      /\ last'.post = y.id
                      /\ ~y.is_retweet
                      /\ y.original_post_id = NULL
                   \/ /\ last'.op = "retweet"
                      /\ y.is_retweet
                      /\ y.original_post_id = last'.post
                      /\ y.user_id = last'.user
         ]_vars

\* Both kinds of row are in the table while a request is under way: a post
\* written by CreatePost and the retweet post a Retweet of it has written.
C31_Witness ==
    /\ \E x \in posts : ~x.is_retweet /\ x.original_post_id = NULL
    /\ \E y \in posts : y.is_retweet /\ PostExists(DB, y.original_post_id)
    /\ \E s \in Sessions : sess[s].pc # "idle"

\* C32: in every state reachable by any interleaving of the requests there is
\* at most one retweet post for each (owner, original_post_id) pair, and no
\* Unretweet ends in the error scalar_one_or_none raises on more than one row:
\* its lookup of the retweet post matches one row or none.
AtMostOneMirrorPerPair ==
    /\ \A k \in Pairs : Cardinality(Mirrors(DB, k[1], k[2])) <= 1
    /\ ~(last.op = "unretweet" /\ last.detail = "multiple_results")

\* An Unretweet has succeeded whose lookup matched the one retweet post of its
\* pair: the store it found held that post, and neither the post nor the Retweet
\* row is left.
C32_Witness ==
    /\ Succeeded("unretweet", last.user, last.post)
    /\ Cardinality(Mirrors(before, last.user, last.post)) = 1
    /\ before.retweets[<<last.user, last.post>>] = 1
    /\ Mirrors(DB, last.user, last.post) = {}
    /\ retweets[<<last.user, last.post>>] = 0

\* C33: in every state reachable by any interleaving of the requests that
\* write, no row dangles: every Like row, every Retweet row and every Comment
\* row references a Post row in the store, and every Comment with a
\* parent_comment_id references a Comment row in the store.
NoDanglingRow ==
    /\ \A k \in Pairs : likes[k] > 0 => PostExists(DB, k[2])
    /\ \A k \in Pairs : retweets[k] > 0 => PostExists(DB, k[2])
    /\ \A x \in comments :
          /\ PostExists(DB, x.post_id)
          /\ x.parent_comment_id # NULL => CommentExists(DB, x.parent_comment_id)

\* An Unretweet has deleted a retweet post that carried a like: the store it
\* found held the retweet post and a Like row of it, and neither is left.
C33_Witness ==
    /\ Succeeded("unretweet", last.user, last.post)
    /\ \E m \in Mirrors(before, last.user, last.post) :
          /\ \E v \in Users : before.likes[<<v, m.id>>] = 1
          /\ \A v \in Users : likes[<<v, m.id>>] = 0
          /\ ~PostExists(DB, m.id)

\* The id n parent links above comment c in the comments cs: c itself for
\* n = 0, NULL above a comment without parent or where the link finds no row.
RECURSIVE Ancestor(_, _, _)
Ancestor(cs, c, n) ==
    IF n = 0 \/ c = NULL THEN c
    ELSE IF \E x \in cs : x.id = c
      THEN Ancestor(cs, (CHOOSE x \in cs : x.id = c).parent_comment_id, n - 1)
    ELSE NULL

\* C34: in every state reachable by any interleaving of the requests on posts
\* and comments the parent relation of the comments is a forest: from every
\* comment the parent links lead, in at most as many steps as there are
\* comments, to a stored comment without parent, and no comment is met again
\* on the way up from itself.
CommentsAreForest ==
    \A x \in comments :
       LET N == Cardinality(comments)
       IN  /\ \E n \in 0..N :
                \E r \in comments :
                   r.id = Ancestor(comments, x.id, n) /\ r.parent_comment_id = NULL
           /\ \A n \in 1..N : Ancestor(comments, x.id, n) # x.id

\* A reply to a reply is in the store: two links lead from it to the top-level
\* comment of its thread.
C34_Witness ==
    \E x \in comments, r \in comments :
       /\ x.parent_comment_id # NULL
       /\ Ancestor(comments, x.id, 1) # r.id
       /\ Ancestor(comments, x.id, 2) = r.id
       /\ r.parent_comment_id = NULL

\* C35: in every reachable state no Retweet row references a retweet post
\* (is_retweet = true) as its original_post_id: the target of every retweet is
\* an original post.
NoRetweetOfMirror ==
    \A k \in Pairs : retweets[k] > 0 => \A x \in PostById(DB, k[2]) : ~x.is_retweet

\* C36: of two Unlike requests for one (user, post) pair that both read the
\* Like row before either commits, the one that commits first succeeds and
\* removes the row, and the other, committing next, ends in NotFound; no Like
\* row of the pair is in the store after either commit.
ConcurrentUnlikes ==
    [][\A s \in Sessions :
         (sess[s].pc = "unlike" /\ sess'[s].pc = "idle") =>
           LET u == sess[s].user
               p == sess[s].post
               rival == \E t \in Sessions \ {s} :
                           sess[t].pc = "unlike" /\ sess[t].user = u /\ sess[t].post = p
           IN  /\ (rival /\ likes[<<u, p>>] = 1) =>
                     (last'.res = "Success" /\ likes'[<<u, p>>] = 0)
               /\ (Succeeded("unlike", u, p) /\ likes[<<u, p>>] = 0) =>
                     (last'.res = "NotFound" /\ likes'[<<u, p>>] = 0)
      ]_vars

====
